---- MODULE Spec2Model ----
(***************************************************************************)
(* Model of the code execution engine of backend/code_executor.py:         *)
(* CodeExecutor.execute_code and its per-language runners, and             *)
(* CodeExecutor.test_solution, which grades a submission against an        *)
(* ordered list of test cases.                                             *)
(*                                                                         *)
(* Strings are sequences of one-character strings (a multi-character       *)
(* element stands for a run of text that strip() never cuts into).         *)
(* Optional[T] is <<>> for None and <<v>> for a value.  A float is an      *)
(* exact rational <<numerator, denominator>>.                              *)
(***************************************************************************)
EXTENDS Integers, Sequences, FiniteSets, TLC

VARIABLES
    language,       \* test_solution's argument
    code,           \* test_solution's argument (opaque source text)
    test_cases,     \* test_solution's argument: sequence of [input, expected_output]
    pc,             \* position in test_solution: "start", "loop", "returned"
    idx,            \* 1-based index of the test case the for loop takes next
    passed_tests,   \* local of test_solution
    total_tests,    \* local of test_solution
    total_runtime,  \* local of test_solution (sum of integer milliseconds)
    ret,            \* the CodeExecutionResult test_solution returned
    calls,          \* history: one entry per execute_code invocation, in order
    files,          \* scratch files that exist on disk (ids)
    created,        \* number of scratch files ever created
    spawned,        \* number of child processes ever spawned
    orphans,        \* processes started by a run that outlive its return
    cmp_expected,   \* comparison harness: expected text
    cmp_actual,     \* comparison harness: actual text
    cmp_result,     \* comparison harness: "unset", "Match" or "Mismatch"
    requests,       \* server: the submit_code request of each client, its position and locals
    loop,           \* server: the request whose handler holds the event loop thread, or 0
    db_submissions, \* server: db.submissions, in the order the store hands out record ids
    db_problem,     \* server: the counters of the problem document
    db_user,        \* server: the counters of the user document
    runs,           \* concurrent callers: each call of _execute_python, its position and locals
    disk,           \* concurrent callers: the scratch directory, name -> content
    api_log,        \* API calls served one after another: request, what was run, response
    registrations,  \* register: the request of each client, its position and locals
    db_users        \* register: db.users, the stored user documents

vars == <<language, code, test_cases, pc, idx, passed_tests, total_tests,
          total_runtime, ret, calls, files, created, spawned, orphans,
          cmp_expected, cmp_actual, cmp_result,
          requests, loop, db_submissions, db_problem, db_user, runs, disk,
          api_log, registrations, db_users>>

execVars == <<language, code, test_cases, pc, idx, passed_tests, total_tests,
              total_runtime, ret, calls, files, created, spawned, orphans>>

cmpVars == <<cmp_expected, cmp_actual, cmp_result>>

\* What the executor's actions leave alone, and what the comparison leaves alone.
srvVars == <<requests, loop, db_submissions, db_problem, db_user>>

\* What the executor's actions leave alone, what the comparison leaves alone,
\* and what the server's handlers leave alone.
conVars == <<runs, disk>>

apiVars == <<api_log>>

regVars == <<registrations, db_users>>

nonExecVars == <<cmpVars, srvVars, conVars, apiVars, regVars>>

nonCmpVars == <<execVars, srvVars, conVars, apiVars, regVars>>

nonSrvVars == <<execVars, cmpVars, conVars, apiVars, regVars>>

nonConVars == <<execVars, cmpVars, srvVars, apiVars, regVars>>

nonRegVars == <<execVars, cmpVars, srvVars, conVars, apiVars>>

----------------------------------------------------------------------------
\* Bounds of the model.

\* Longest test-case list a submission is graded against.
MaxCases == 2

\* Longest text handed to the comparison harness.
MaxLen == 3

\* Most ad hoc runs (direct execute_code calls) in a row.
MaxRuns == 2

\* Number of submit_code requests the clients send.
MaxRequests == 3

\* Number of callers inside _execute_python at the same time.
MaxCallers == 2

\* Number of register requests the clients send.
MaxRegistrations == 3

\* Number of run_code and submit_code calls served one after another.
MaxApiCalls == 2

----------------------------------------------------------------------------
\* Enumerations of models.py.

ACCEPTED == "Accepted"
WRONG_ANSWER == "Wrong Answer"
TIME_LIMIT_EXCEEDED == "Time Limit Exceeded"
MEMORY_LIMIT_EXCEEDED == "Memory Limit Exceeded"
RUNTIME_ERROR == "Runtime Error"
COMPILE_ERROR == "Compile Error"

SubmissionStatusEnum ==
    {ACCEPTED, WRONG_ANSWER, TIME_LIMIT_EXCEEDED, MEMORY_LIMIT_EXCEEDED,
     RUNTIME_ERROR, COMPILE_ERROR}

PYTHON == "python"
JAVASCRIPT == "javascript"
JAVA == "java"
CPP == "cpp"

LanguageEnum == {PYTHON, JAVASCRIPT, JAVA, CPP}

\* A language value outside the enumeration: execute_code's else branch.
OtherLanguage == "ruby"

Languages == LanguageEnum \cup {OtherLanguage}

----------------------------------------------------------------------------
\* Optional values and floats.

None == <<>>

Some(v) == <<v>>

RECURSIVE GCD(_, _)
GCD(a, b) == IF b = 0 THEN a ELSE GCD(b, a % b)

\* The float n / d (d > 0), as a reduced fraction.
Rat(n, d) == LET g == GCD(n, d) IN IF g = 0 THEN <<0, 1>> ELSE <<n \div g, d \div g>>

\* CodeExecutionResult(...) with the defaults of the pydantic model.
CodeExecutionResult(status, output, runtime, memory, passed, total, error_message) ==
    [status |-> status, output |-> output, runtime |-> runtime, memory |-> memory,
     passed_tests |-> passed, total_tests |-> total, error_message |-> error_message]

\* ret before test_solution has returned.
NoResult == CodeExecutionResult("none", <<>>, None, None, 0, 0, None)

----------------------------------------------------------------------------
\* Text.

SP == " "
NL == "\n"

\* Characters str.strip() removes (those of them the model's texts use).
Whitespace == {SP, NL}

RECURSIVE LStrip(_)
LStrip(s) ==
    IF s # <<>> /\ Head(s) \in Whitespace THEN LStrip(Tail(s)) ELSE s

RECURSIVE RStrip(_)
RStrip(s) ==
    IF s # <<>> /\ s[Len(s)] \in Whitespace
    THEN RStrip(SubSeq(s, 1, Len(s) - 1))
    ELSE s

\* A strip that also drops interior whitespace (a whitespace-insensitive compare).
RECURSIVE StripAll(_)
StripAll(s) ==
    IF s = <<>> THEN <<>>
    ELSE IF Head(s) \in Whitespace THEN StripAll(Tail(s))
    ELSE <<Head(s)>> \o StripAll(Tail(s))

\* str.strip()
Strip(s) == RStrip(LStrip(s))

\* expected == actual of test_solution, on the stripped texts.
Compare(expected_output, output) ==
    IF Strip(expected_output) = Strip(output) THEN "Match" ELSE "Mismatch"

----------------------------------------------------------------------------
\* Inputs and the environment of one run.

Codes == {"c1", "c2"}

Inputs == {<<"a">>, <<"b">>}

ExpectedPool == {<<"5">>, <<"5", "6", NL>>, <<"Java execution mocked">>}

StdoutPool == {<<"5", NL>>, <<"5", "6">>, <<"5", SP, "6", NL>>, <<>>}

\* In a text the child writes, the path of the script it was started on.
ScriptToken == "{script}"

\* stderr of a script that exits non-zero: the interpreter's traceback of an
\* unhandled ZeroDivisionError, which names the script, or nothing.
StderrPool ==
    {<<"File ", ScriptToken, NL, "ZeroDivisionError: division by zero", NL>>, <<>>}

\* Wall-clock milliseconds a finished child can take (below the timeout).
Elapsed == {1, 2}

TestCase == [input : Inputs, expected_output : ExpectedPool]

RECURSIVE SeqsUpTo(_, _)
SeqsUpTo(S, n) ==
    IF n = 0 THEN {<<>>}
    ELSE LET shorter == SeqsUpTo(S, n - 1)
         IN shorter \cup {Append(q, x) : q \in {r \in shorter : Len(r) = n - 1}, x \in S}

\* self.timeout (seconds) and self.memory_limit (MB) of CodeExecutor.__init__.
timeout == 5
memory_limit == 128

\* Peak resident memory (MB) of a child: within the limit, beyond it.
SmallPeak == 16
LargePeak == 256

\* descendants: processes the child started that are alive when the child ends
\* or is killed; peak: the child's peak memory in MB.
Env(kind, rc, stdout, stderr, elapsed, descendants, peak) ==
    [kind |-> kind, rc |-> rc, stdout |-> stdout, stderr |-> stderr, elapsed |-> elapsed,
     descendants |-> descendants, peak |-> peak]

\* What the operating system and the child process do in one run of a script:
\* the temporary file cannot be created; writing the source to it raises; the
\* interpreter cannot be started; the child outlives the timeout; the child exits.
ChildEnvs ==
    {Env(k, 0, <<>>, <<>>, 0, 0, 0) : k \in {"create_fails", "write_fails", "spawn_fails"}}
    \cup {Env("timeout", 0, <<>>, <<>>, timeout * 1000, d, SmallPeak) : d \in {0, 1}}
    \cup {Env("exit", 0, out, <<>>, ms, 0, SmallPeak) : out \in StdoutPool, ms \in Elapsed}
    \cup {Env("exit", 0, <<"5", NL>>, <<>>, 1, 0, LargePeak)}
    \cup {Env("exit", 1, <<>>, err, 1, 0, SmallPeak) : err \in StderrPool}

\* The mocked runners and the unsupported branch consult no environment.
NoEnv == Env("none", 0, <<>>, <<>>, 0, 0, 0)

EnvsFor(lang) == IF lang \in {PYTHON, JAVASCRIPT} THEN ChildEnvs ELSE {NoEnv}

\* str(e) of the exceptions the environment raises.
MsgCreate == <<"[Errno 13] Permission denied">>
MsgWrite == <<"[Errno 28] No space left on device">>
MsgSpawn == <<"[Errno 2] No such file or directory">>

----------------------------------------------------------------------------
\* The runners.  fs is [files, created, spawned]; a runner yields
\* [raised, error, res, fs]: either it raises (error is str(e)) or it returns res.

Raise(error, fs) == [raised |-> TRUE, error |-> error, res |-> NoResult, fs |-> fs]

Return(res, fs) == [raised |-> FALSE, error |-> <<>>, res |-> res, fs |-> fs]

PythonMemory == 10
JavascriptMemory == 15
JavaRuntime == 50
JavaMemory == 25
CppRuntime == 30
CppMemory == 20

\* The name tempfile gives the next scratch file: one no earlier file had.
ScratchId(fs) == fs.created + 1

ScriptPath(f) == "/tmp/tmp" \o ToString(f) \o ".py"

\* The text the child wrote, with the path of its script filled in.
RECURSIVE Captured(_, _)
Captured(text, f) ==
    IF text = <<>> THEN <<>>
    ELSE <<IF Head(text) = ScriptToken THEN ScriptPath(f) ELSE Head(text)>>
         \o Captured(Tail(text), f)

\* _execute_python / _execute_javascript: the two differ in the file's suffix and
\* content, in how the input reaches the child, and in the mocked memory figure.
RunScript(memory, env, fs) ==
    LET f == ScratchId(fs)
        opened == [fs EXCEPT !.files = @ \cup {f}, !.created = f]
        \* subprocess.run waits for the child, or kills it (it alone) at the timeout
        ran == [opened EXCEPT !.spawned = @ + 1, !.orphans = @ + env.descendants]
        unlinked(s) == [s EXCEPT !.files = @ \ {f}]
    IN  CASE env.kind = "create_fails" -> Raise(MsgCreate, fs)
          [] env.kind = "write_fails" -> Raise(MsgWrite, opened)
          [] env.kind = "spawn_fails" -> Raise(MsgSpawn, unlinked(opened))
          [] env.kind = "timeout" ->
                Return(CodeExecutionResult(TIME_LIMIT_EXCEEDED, <<>>, None, None, 0, 0,
                                           Some(<<"Time limit exceeded">>)),
                       unlinked(ran))
          [] env.kind = "exit" ->
                Return(IF env.rc = 0
                       THEN CodeExecutionResult(ACCEPTED, Strip(env.stdout),
                                                Some(Rat(env.elapsed, 1)),
                                                Some(Rat(memory, 1)), 0, 0, None)
                       ELSE CodeExecutionResult(RUNTIME_ERROR, Strip(env.stdout),
                                                None, None, 0, 0,
                                                Some(Strip(Captured(env.stderr, f)))),
                       unlinked(ran))

ExecutePython(src, test_input, env, fs) == RunScript(PythonMemory, env, fs)

ExecuteJavascript(src, test_input, env, fs) == RunScript(JavascriptMemory, env, fs)

ExecuteJava(src, test_input, fs) ==
    Return(CodeExecutionResult(ACCEPTED, <<"Java execution mocked">>,
                               Some(Rat(JavaRuntime, 1)), Some(Rat(JavaMemory, 1)),
                               0, 0, None), fs)

ExecuteCpp(src, test_input, fs) ==
    Return(CodeExecutionResult(ACCEPTED, <<"C++ execution mocked">>,
                               Some(Rat(CppRuntime, 1)), Some(Rat(CppMemory, 1)),
                               0, 0, None), fs)

\* execute_code without its except clause: an exception of a runner leaves the call.
ExecuteCodeNoExcept(lang, src, test_input, env, fs) ==
    LET r == CASE lang = PYTHON -> ExecutePython(src, test_input, env, fs)
               [] lang = JAVASCRIPT -> ExecuteJavascript(src, test_input, env, fs)
               [] lang = JAVA -> ExecuteJava(src, test_input, fs)
               [] lang = CPP -> ExecuteCpp(src, test_input, fs)
               [] OTHER ->
                    Return(CodeExecutionResult(RUNTIME_ERROR, <<"Unsupported language">>,
                                               None, None, 0, 0,
                                               Some(<<"Language not supported">>)), fs)
    IN  [raised |-> r.raised, res |-> r.res, fs |-> r.fs]

\* execute_code: dispatch on the language; any exception becomes a RUNTIME_ERROR
\* result.  Yields [raised, res, fs]; raised says that an exception left the call.
ExecuteCode(lang, src, test_input, env, fs) ==
    LET r == CASE lang = PYTHON -> ExecutePython(src, test_input, env, fs)
               [] lang = JAVASCRIPT -> ExecuteJavascript(src, test_input, env, fs)
               [] lang = JAVA -> ExecuteJava(src, test_input, fs)
               [] lang = CPP -> ExecuteCpp(src, test_input, fs)
               [] OTHER ->
                    Return(CodeExecutionResult(RUNTIME_ERROR, <<"Unsupported language">>,
                                               None, None, 0, 0,
                                               Some(<<"Language not supported">>)), fs)
    IN  IF r.raised
        THEN [raised |-> FALSE,
              res |-> CodeExecutionResult(RUNTIME_ERROR, <<>>, None, None, 0, 0,
                                          Some(r.error)),
              fs |-> r.fs]
        ELSE [raised |-> FALSE, res |-> r.res, fs |-> r.fs]

----------------------------------------------------------------------------
\* test_solution.

\* f"{avg_runtime:.2f}": the hundredths nearest to n/d, printed with two decimals
\* (a tie needs a denominator that is a multiple of 8).
Fmt2f(r) ==
    LET h == (200 * r[1] + r[2]) \div (2 * r[2])
        frac == h % 100
    IN  ToString(h \div 100) \o "." \o (IF frac < 10 THEN "0" ELSE "") \o ToString(frac)

\* result.runtime or 0 (every runtime a run reports is a whole number of ms).
RuntimeOrZero(result) == IF result.runtime = None THEN 0 ELSE result.runtime[1][1]

\* GradeCase with a mismatch skipped instead of ending the loop.
GradeCaseSkipsMismatch(result, test_case, passed, total, runtime) ==
    IF result.status = ACCEPTED
    THEN IF Compare(test_case.expected_output, result.output) = "Match"
         THEN [stop |-> FALSE, ret |-> NoResult, passed |-> passed + 1,
               runtime |-> runtime + RuntimeOrZero(result)]
         ELSE [stop |-> FALSE, ret |-> NoResult, passed |-> passed, runtime |-> runtime]
    ELSE [stop |-> TRUE, ret |-> result, passed |-> passed, runtime |-> runtime]

\* GradeCase with the two texts of the Wrong Answer message exchanged.
GradeCaseSwapsTexts(result, test_case, passed, total, runtime) ==
    IF result.status = ACCEPTED
    THEN LET expected == Strip(test_case.expected_output)
             actual == Strip(result.output)
         IN  IF Compare(test_case.expected_output, result.output) = "Match"
             THEN [stop |-> FALSE, ret |-> NoResult, passed |-> passed + 1,
                   runtime |-> runtime + RuntimeOrZero(result)]
             ELSE [stop |-> TRUE,
                   ret |-> CodeExecutionResult(
                               WRONG_ANSWER,
                               <<"Expected: ">> \o actual \o <<NL, "Actual: ">> \o expected,
                               result.runtime, None, passed, total, None),
                   passed |-> passed, runtime |-> runtime]
    ELSE [stop |-> TRUE, ret |-> result, passed |-> passed, runtime |-> runtime]

\* The body of the for loop for one test case, given the result of its run:
\* [stop, ret, passed, runtime], where stop says that test_solution returns ret.
GradeCase(result, test_case, passed, total, runtime) ==
    IF result.status = ACCEPTED
    THEN LET expected == Strip(test_case.expected_output)
             actual == Strip(result.output)
         IN  IF Compare(test_case.expected_output, result.output) = "Match"
             THEN [stop |-> FALSE, ret |-> NoResult, passed |-> passed + 1,
                   runtime |-> runtime + RuntimeOrZero(result)]
             ELSE [stop |-> TRUE,
                   ret |-> CodeExecutionResult(
                               WRONG_ANSWER,
                               <<"Expected: ">> \o expected \o <<NL, "Actual: ">> \o actual,
                               result.runtime, None, passed, total, None),
                   passed |-> passed, runtime |-> runtime]
    ELSE [stop |-> TRUE, ret |-> result, passed |-> passed, runtime |-> runtime]

\* A return after the loop that takes an empty list for a failure.
AllPassedNeedsCases(passed, total, runtime) ==
    IF total = 0
    THEN CodeExecutionResult(WRONG_ANSWER, <<"No test cases">>, None, None, 0, 0, None)
    ELSE CodeExecutionResult(
            ACCEPTED,
            <<"All test cases passed!", NL, "Average Runtime: ",
              Fmt2f(Rat(runtime, total)), "ms">>,
            Some(Rat(runtime, total)), None, passed, total, None)

\* The return after the loop.
AllPassed(passed, total, runtime) ==
    LET avg_runtime == IF total > 0 THEN Rat(runtime, total) ELSE Rat(0, 1)
    IN  CodeExecutionResult(
            ACCEPTED,
            <<"All test cases passed!", NL, "Average Runtime: ", Fmt2f(avg_runtime), "ms">>,
            Some(avg_runtime), None, passed, total, None)

\* The files and processes of the host, as the runners see them.
FileSystem ==
    [files |-> files, created |-> created, spawned |-> spawned, orphans |-> orphans]

\* History entry of one execute_code invocation: its arguments, what the
\* environment did, what the child's stderr held, what the call returned and
\* what it changed on the host.
CallRecord(case, lang, src, test_input, env, fs, run) ==
    [case |-> case, language |-> lang, code |-> src, input |-> test_input, env |-> env,
     stderr |-> Captured(env.stderr, ScratchId(fs)),
     raised |-> run.raised, res |-> run.res,
     created |-> run.fs.created - fs.created,
     spawned |-> run.fs.spawned - fs.spawned,
     orphans |-> run.fs.orphans - fs.orphans,
     left |-> run.fs.files \ fs.files]

\* passed_tests = 0; total_tests = len(test_cases); total_runtime = 0
TestSolutionEnter ==
    /\ pc = "start"
    /\ passed_tests' = 0
    /\ total_tests' = Len(test_cases)
    /\ total_runtime' = 0
    /\ idx' = 1
    /\ pc' = "loop"
    /\ UNCHANGED <<language, code, test_cases, ret, calls, files, created, spawned,
                   orphans>>
    /\ UNCHANGED nonExecVars

\* One iteration of the for loop: run the case, then grade it.
TestSolutionCase ==
    /\ pc = "loop"
    /\ idx <= Len(test_cases)
    /\ \E env \in EnvsFor(language) :
          LET test_case == test_cases[idx]
              fs == FileSystem
              run == ExecuteCode(language, code, test_case.input, env, fs)
              g == GradeCase(run.res, test_case, passed_tests, total_tests, total_runtime)
          IN  /\ calls' = Append(calls, CallRecord(idx, language, code, test_case.input,
                                                   env, fs, run))
              /\ files' = run.fs.files
              /\ created' = run.fs.created
              /\ spawned' = run.fs.spawned
              /\ orphans' = run.fs.orphans
              /\ IF run.raised
                 THEN \* an exception of execute_code would leave test_solution too
                      /\ pc' = "raised"
                      /\ UNCHANGED <<ret, idx, passed_tests, total_runtime>>
                 ELSE /\ passed_tests' = g.passed
                      /\ total_runtime' = g.runtime
                      /\ IF g.stop
                         THEN /\ ret' = g.ret
                              /\ pc' = "returned"
                              /\ idx' = idx
                         ELSE /\ ret' = ret
                              /\ pc' = "loop"
                              /\ idx' = idx + 1
    /\ UNCHANGED <<language, code, test_cases, total_tests>>
    /\ UNCHANGED nonExecVars

\* The loop ran out of test cases.
TestSolutionReturn ==
    /\ pc = "loop"
    /\ idx > Len(test_cases)
    /\ ret' = AllPassed(passed_tests, total_tests, total_runtime)
    /\ pc' = "returned"
    /\ UNCHANGED <<language, code, test_cases, idx, passed_tests, total_tests,
                   total_runtime, calls, files, created, spawned, orphans>>
    /\ UNCHANGED nonExecVars

\* The locals, the result and the host before anything has run.
ExecFresh ==
    /\ idx = 1
    /\ passed_tests = 0
    /\ total_tests = 0
    /\ total_runtime = 0
    /\ ret = NoResult
    /\ calls = <<>>
    /\ files = {}
    /\ created = 0
    /\ spawned = 0
    /\ orphans = 0

\* The executor at rest, in the specifications that do not use it.
ExecIdle ==
    /\ language = PYTHON
    /\ code = "c1"
    /\ test_cases = <<>>
    /\ pc = "idle"
    /\ ExecFresh

\* The server before any request: empty collections but for one problem and one user.
SrvFresh ==
    /\ requests = [h \in 1..MaxRequests |->
                      [pc |-> "new", problem_id |-> "none", status |-> "none",
                       response |-> "none"]]
    /\ loop = 0
    /\ db_submissions = <<>>
    /\ db_problem = [total_submissions |-> 0, accepted_submissions |-> 0]
    /\ db_user = [total_solved |-> 0, easy_solved |-> 0]

\* No caller inside _execute_python, an empty scratch directory.
ConIdle ==
    /\ runs = <<>>
    /\ disk = <<>>

\* No API call served yet.
ApiIdle == api_log = <<>>

\* No registration under way, no user stored.
RegIdle ==
    /\ registrations = <<>>
    /\ db_users = <<>>

\* The comparison harness at rest.
CmpIdle ==
    /\ cmp_expected = <<>>
    /\ cmp_actual = <<>>
    /\ cmp_result = "unset"

Init ==
    /\ language \in Languages
    /\ code \in Codes
    /\ test_cases \in SeqsUpTo(TestCase, MaxCases)
    /\ pc = "start"
    /\ ExecFresh
    /\ CmpIdle
    /\ SrvFresh
    /\ ConIdle
    /\ ApiIdle
    /\ RegIdle

Next ==
    \/ TestSolutionEnter
    \/ TestSolutionCase
    \/ TestSolutionReturn

Spec == Init /\ [][Next]_vars

----------------------------------------------------------------------------
\* Ad hoc runs: execute_code called directly, as run_code does, several times
\* in a row with the same language and code.

RunOnce ==
    /\ pc = "run"
    /\ Len(calls) < MaxRuns
    /\ \E test_input \in Inputs, env \in EnvsFor(language) :
          LET fs == FileSystem
              run == ExecuteCode(language, code, test_input, env, fs)
          IN  /\ calls' = Append(calls, CallRecord(Len(calls) + 1, language, code,
                                                   test_input, env, fs, run))
              /\ files' = run.fs.files
              /\ created' = run.fs.created
              /\ spawned' = run.fs.spawned
              /\ orphans' = run.fs.orphans
              /\ pc' = IF run.raised THEN "raised" ELSE "run"
    /\ UNCHANGED <<language, code, test_cases, idx, passed_tests, total_tests,
                   total_runtime, ret>>
    /\ UNCHANGED nonExecVars

InitRun ==
    /\ language \in Languages
    /\ code \in Codes
    /\ test_cases = <<>>
    /\ pc = "run"
    /\ ExecFresh
    /\ CmpIdle
    /\ SrvFresh
    /\ ConIdle
    /\ ApiIdle
    /\ RegIdle

NextRun == RunOnce

SpecRun == InitRun /\ [][NextRun]_vars

----------------------------------------------------------------------------
\* The server: submit_code handlers (server.py) as coroutines of one event
\* loop, and the document store they await.  All requests come from one user;
\* the store holds one problem, of difficulty Easy.

Requests == 1..MaxRequests

ProblemIds == {"p1"}

MissingProblem == "p0"

\* Verdicts test_solution hands to the handler; every verdict other than
\* Accepted takes the same path through submit_code.
GradingOutcomes == {ACCEPTED, WRONG_ANSWER}

NotFound == "404 Problem not found"

At(h, where) == requests[h].pc = where

Goto(h, where) == [requests EXCEPT ![h].pc = where]

Respond(h, what) == [requests EXCEPT ![h].pc = "done", ![h].response = what]

\* A client sends POST /code/submit.
Arrive(h) ==
    /\ At(h, "new")
    /\ \E p \in ProblemIds \cup {MissingProblem} :
          requests' = [requests EXCEPT ![h].pc = "find_problem", ![h].problem_id = p]
    /\ UNCHANGED <<loop, db_submissions, db_problem, db_user>>
    /\ UNCHANGED nonSrvVars

\* The handler resumes from db.problems.find_one: 404, or the synchronous call
\* of code_executor.test_solution begins on the event loop thread.
StartGrading(h) ==
    /\ loop = 0
    /\ At(h, "find_problem")
    /\ IF requests[h].problem_id \notin ProblemIds
       THEN requests' = Respond(h, NotFound) /\ UNCHANGED loop
       ELSE requests' = Goto(h, "grading") /\ loop' = h
    /\ UNCHANGED <<db_submissions, db_problem, db_user>>
    /\ UNCHANGED nonSrvVars

\* test_solution returns; the handler builds the Submission and awaits insert_one.
FinishGrading(h) ==
    /\ loop = h
    /\ At(h, "grading")
    /\ \E st \in GradingOutcomes :
          requests' = [requests EXCEPT ![h].pc = "inserting", ![h].status = st]
    /\ loop' = 0
    /\ UNCHANGED <<db_submissions, db_problem, db_user>>
    /\ UNCHANGED nonSrvVars

\* The store takes the insert: the document gets the next record id; readers do
\* not see it before the insert is committed.
StoreAllocate(h) ==
    /\ At(h, "inserting")
    /\ db_submissions' = Append(db_submissions,
                                [id |-> h, status |-> requests[h].status,
                                 visible |-> FALSE])
    /\ requests' = Goto(h, "allocated")
    /\ UNCHANGED <<loop, db_problem, db_user>>
    /\ UNCHANGED nonSrvVars

\* The store commits the insert and acknowledges it.
StoreCommit(h) ==
    /\ At(h, "allocated")
    /\ db_submissions' = [k \in DOMAIN db_submissions |->
                            IF db_submissions[k].id = h
                            THEN [db_submissions[k] EXCEPT !.visible = TRUE]
                            ELSE db_submissions[k]]
    /\ requests' = Goto(h, "inserted")
    /\ UNCHANGED <<loop, db_problem, db_user>>
    /\ UNCHANGED nonSrvVars

\* The handler going on without the $inc of total_submissions.
IncTotalSubmissionsSkipped(h) ==
    /\ loop = 0
    /\ At(h, "inserted")
    /\ requests' = IF requests[h].status = ACCEPTED
                   THEN Goto(h, "inc_accepted")
                   ELSE Respond(h, requests[h].status)
    /\ UNCHANGED <<loop, db_submissions, db_problem, db_user>>
    /\ UNCHANGED nonSrvVars

\* $inc total_submissions; a verdict other than Accepted is answered at once.
IncTotalSubmissions(h) ==
    /\ loop = 0
    /\ At(h, "inserted")
    /\ db_problem' = [db_problem EXCEPT !.total_submissions = @ + 1]
    /\ requests' = IF requests[h].status = ACCEPTED
                   THEN Goto(h, "inc_accepted")
                   ELSE Respond(h, requests[h].status)
    /\ UNCHANGED <<loop, db_submissions, db_user>>
    /\ UNCHANGED nonSrvVars

\* $inc accepted_submissions.
IncAcceptedSubmissions(h) ==
    /\ loop = 0
    /\ At(h, "inc_accepted")
    /\ db_problem' = [db_problem EXCEPT !.accepted_submissions = @ + 1]
    /\ requests' = Goto(h, "find_existing")
    /\ UNCHANGED <<loop, db_submissions, db_user>>
    /\ UNCHANGED nonSrvVars

\* Positions of the Accepted submissions of the user for the problem that a
\* reader sees.
AcceptedVisible ==
    {k \in DOMAIN db_submissions :
        db_submissions[k].visible /\ db_submissions[k].status = ACCEPTED}

\* find_one without a sort: the first match in record order; 0 for None.
FindOneAccepted ==
    IF AcceptedVisible = {} THEN 0
    ELSE db_submissions[CHOOSE k \in AcceptedVisible :
                            \A j \in AcceptedVisible : k <= j].id

\* The first-accepted test: statistics are due when find_one returns nothing or
\* the submission just inserted.
FindExistingAccepted(h) ==
    /\ loop = 0
    /\ At(h, "find_existing")
    /\ LET existing_accepted == FindOneAccepted
       IN  requests' = IF existing_accepted = 0 \/ existing_accepted = h
                       THEN Goto(h, "inc_user")
                       ELSE Respond(h, requests[h].status)
    /\ UNCHANGED <<loop, db_submissions, db_problem, db_user>>
    /\ UNCHANGED nonSrvVars

\* $inc total_solved and the counter of the problem's difficulty; the response.
IncUserStats(h) ==
    /\ loop = 0
    /\ At(h, "inc_user")
    /\ db_user' = [db_user EXCEPT !.total_solved = @ + 1, !.easy_solved = @ + 1]
    /\ requests' = Respond(h, requests[h].status)
    /\ UNCHANGED <<loop, db_submissions, db_problem>>
    /\ UNCHANGED nonSrvVars

\* The steps of a handler that the event loop runs.
HandlerStep(h) ==
    \/ StartGrading(h)
    \/ FinishGrading(h)
    \/ IncTotalSubmissions(h)
    \/ IncAcceptedSubmissions(h)
    \/ FindExistingAccepted(h)
    \/ IncUserStats(h)

InitServer ==
    /\ ExecIdle
    /\ CmpIdle
    /\ SrvFresh
    /\ ConIdle
    /\ ApiIdle
    /\ RegIdle

NextServer ==
    \E h \in Requests :
        \/ Arrive(h)
        \/ StartGrading(h)
        \/ FinishGrading(h)
        \/ StoreAllocate(h)
        \/ StoreCommit(h)
        \/ IncTotalSubmissions(h)
        \/ IncAcceptedSubmissions(h)
        \/ FindExistingAccepted(h)
        \/ IncUserStats(h)

SpecServer == InitServer /\ [][NextServer]_vars

----------------------------------------------------------------------------
\* Concurrent callers of _execute_python (threads or worker processes sharing
\* the scratch directory), each taken step by step.  Here the programs are
\* fixed: "c1" echoes its input; "c2" removes the scripts it finds in the
\* scratch directory, its own apart, and prints nothing.

Callers == 1..MaxCallers

\* Names the scratch directory can hold; one more than there are callers.
ScratchNames == 1..(MaxCallers + 1)

\* NamedTemporaryFile: a name no existing file has (O_CREAT | O_EXCL).
FreshNames(d) == ScratchNames \ DOMAIN d

\* What python3 does with the text it loaded from the script, on this input.
ChildOf(program, test_input) ==
    CASE program = "c1" -> Env("exit", 0, test_input \o <<NL>>, <<>>, 1, 0, SmallPeak)
      [] program = "c2" -> Env("exit", 0, <<>>, <<>>, 1, 0, SmallPeak)
      [] program = "" -> Env("exit", 0, <<>>, <<>>, 1, 0, SmallPeak)
      [] OTHER -> Env("exit", 2, <<>>, <<"can't open file ", ScriptToken, NL>>,
                      1, 0, SmallPeak)

\* The result _execute_python builds from the child started on scratch file n.
ResultOf(program, test_input, n) ==
    RunScript(PythonMemory, ChildOf(program, test_input),
              [files |-> {}, created |-> n - 1, spawned |-> 0, orphans |-> 0]).res

\* str(e) of os.unlink on a file that is gone.
MsgUnlink == <<"[Errno 2] No such file or directory">>

CreateScratch(c) ==
    /\ runs[c].pc = "start"
    /\ \E n \in FreshNames(disk) :
          /\ disk' = [m \in DOMAIN disk \cup {n} |-> IF m = n THEN "" ELSE disk[m]]
          /\ runs' = [runs EXCEPT ![c].pc = "created", ![c].name = n]
    /\ UNCHANGED nonConVars

\* f.write(code); f.flush()
WriteScript(c) ==
    /\ runs[c].pc = "created"
    /\ disk' = IF runs[c].name \in DOMAIN disk
               THEN [disk EXCEPT ![runs[c].name] = runs[c].code]
               ELSE disk
    /\ runs' = [runs EXCEPT ![c].pc = "written"]
    /\ UNCHANGED nonConVars

\* subprocess.run starts python3 on f.name; the interpreter loads the file.
SpawnChild(c) ==
    /\ runs[c].pc = "written"
    /\ runs' = [runs EXCEPT ![c].pc = "running",
                            ![c].program = IF runs[c].name \in DOMAIN disk
                                           THEN disk[runs[c].name]
                                           ELSE "absent"]
    /\ UNCHANGED disk
    /\ UNCHANGED nonConVars

\* The child, nothing confining it, removes a script of another call.
ChildUnlinks(c) ==
    /\ runs[c].pc = "running"
    /\ runs[c].program = "c2"
    /\ \E n \in DOMAIN disk \ {runs[c].name} :
          disk' = [m \in DOMAIN disk \ {n} |-> disk[m]]
    /\ UNCHANGED runs
    /\ UNCHANGED nonConVars

\* The child ends; the result is built from what it wrote and how it exited.
ChildExit(c) ==
    /\ runs[c].pc = "running"
    /\ runs' = [runs EXCEPT ![c].pc = "exited",
                            ![c].res = ResultOf(runs[c].program, runs[c].input,
                                                runs[c].name)]
    /\ UNCHANGED disk
    /\ UNCHANGED nonConVars

\* finally: os.unlink(f.name); its exception is caught by execute_code.
UnlinkScratch(c) ==
    /\ runs[c].pc = "exited"
    /\ IF runs[c].name \in DOMAIN disk
       THEN /\ disk' = [m \in DOMAIN disk \ {runs[c].name} |-> disk[m]]
            /\ runs' = [runs EXCEPT ![c].pc = "done"]
       ELSE /\ disk' = disk
            /\ runs' = [runs EXCEPT ![c].pc = "done",
                                    ![c].res = CodeExecutionResult(
                                        RUNTIME_ERROR, <<>>, None, None, 0, 0,
                                        Some(MsgUnlink))]
    /\ UNCHANGED nonConVars

InitConcurrent ==
    /\ runs \in [Callers -> {[pc |-> "start", code |-> src, input |-> test_input,
                              name |-> 0, program |-> "none", res |-> NoResult] :
                             src \in Codes, test_input \in Inputs}]
    /\ disk = <<>>
    /\ ExecIdle
    /\ CmpIdle
    /\ SrvFresh
    /\ ApiIdle
    /\ RegIdle

NextConcurrent ==
    \E c \in Callers :
        \/ CreateScratch(c)
        \/ WriteScript(c)
        \/ SpawnChild(c)
        \/ ChildUnlinks(c)
        \/ ChildExit(c)
        \/ UnlinkScratch(c)

SpecConcurrent == InitConcurrent /\ [][NextConcurrent]_vars

----------------------------------------------------------------------------
\* register (server.py) and the users collection with its unique indexes.

Registrations == 1..MaxRegistrations

Usernames == {"ann", "bob"}

Emails == {"ann@x.org", "bob@x.org"}

\* Responses of register.
Registered == "200 access_token"
AlreadyExists == "400 User with this email or username already exists"
ServerError == "500 Internal Server Error"

\* find_one({"$or": [{"email": ...}, {"username": ...}]}): is there a match.
FindExistingUser(users, email, username) ==
    \E k \in DOMAIN users : users[k].email = email \/ users[k].username = username

\* A users collection without the unique indexes: every insert is taken.
DuplicateKeyNever(users, doc) == FALSE

\* The unique indexes on email and on username refuse the document.
DuplicateKey(users, doc) ==
    \E k \in DOMAIN users :
        users[k].email = doc.email \/ users[k].username = doc.username

\* A client sends POST /auth/register.
RegisterArrive(r) ==
    /\ registrations[r].pc = "new"
    /\ \E u \in Usernames, e \in Emails :
          registrations' = [registrations EXCEPT ![r].pc = "find_existing",
                                                 ![r].username = u, ![r].email = e]
    /\ UNCHANGED db_users
    /\ UNCHANGED nonRegVars

\* The handler resumes from find_one: 400, or the User is built and insert_one
\* is awaited.
RegisterFindExisting(r) ==
    /\ registrations[r].pc = "find_existing"
    /\ registrations' =
          IF FindExistingUser(db_users, registrations[r].email, registrations[r].username)
          THEN [registrations EXCEPT ![r].pc = "done", ![r].response = AlreadyExists]
          ELSE [registrations EXCEPT ![r].pc = "inserting"]
    /\ UNCHANGED db_users
    /\ UNCHANGED nonRegVars

\* The store takes the insert or refuses it with DuplicateKeyError, which
\* register does not catch; after the insert the token is returned.
RegisterInsert(r) ==
    /\ registrations[r].pc = "inserting"
    /\ LET user == [id |-> r, username |-> registrations[r].username,
                    email |-> registrations[r].email]
       IN  IF DuplicateKey(db_users, user)
           THEN /\ db_users' = db_users
                /\ registrations' = [registrations EXCEPT ![r].pc = "done",
                                                          ![r].response = ServerError]
           ELSE /\ db_users' = Append(db_users, user)
                /\ registrations' = [registrations EXCEPT ![r].pc = "done",
                                                          ![r].response = Registered]
    /\ UNCHANGED nonRegVars

InitRegister ==
    /\ registrations = [r \in Registrations |->
                          [pc |-> "new", username |-> "none", email |-> "none",
                           response |-> "none"]]
    /\ db_users = <<>>
    /\ ExecIdle
    /\ CmpIdle
    /\ SrvFresh
    /\ ConIdle
    /\ ApiIdle

NextRegister ==
    \E r \in Registrations :
        \/ RegisterArrive(r)
        \/ RegisterFindExisting(r)
        \/ RegisterInsert(r)

SpecRegister == InitRegister /\ [][NextRegister]_vars

----------------------------------------------------------------------------
\* run_code and submit_code (server.py), each call served from its request to
\* its response before the next one is taken, against one stored problem and
\* for one user.  The problem document is db_problem, here with its test cases
\* and examples.

\* The programs sent: a language and a source text.
ApiPrograms == {[language |-> PYTHON, code |-> "c1"], [language |-> JAVA, code |-> "c2"]}

\* What a child does in these calls: it prints "5", or fails, or hangs.
ApiEnvs(lang) ==
    IF lang \in {PYTHON, JAVASCRIPT}
    THEN {e \in ChildEnvs :
            \/ /\ e.kind = "exit"
               /\ e.elapsed = 1
               /\ e.peak = SmallPeak
               /\ e.stdout \in {<<"5", NL>>, <<>>}
               /\ (e.rc = 0) = (e.stdout # <<>>)
               /\ (e.rc = 0) = (e.stderr = <<>>)
            \/ e.kind = "timeout" /\ e.descendants = 0}
    ELSE {NoEnv}

\* Example(input, output)
Example(input, output) == [input |-> input, output |-> output]

\* The stored problem: its test cases and its examples.
ProblemDocs ==
    LET t1 == [input |-> <<"a">>, expected_output |-> <<"5">>]
        t2 == [input |-> <<"b">>, expected_output |-> <<"5", "6", NL>>]
        e1 == Example(<<"b">>, <<"5">>)
        e2 == Example(<<"a">>, <<"5", "6", NL>>)
    IN  {[id |-> "p1", test_cases |-> tcs, examples |-> exs,
          total_submissions |-> 0, accepted_submissions |-> 0] :
            tcs \in {<<>>, <<t1, t2>>, <<t2, t1>>},
            exs \in {<<>>, <<e1, e2>>}}

\* CodeExecutionRequest and SubmissionCreate; a submission has no test_input.
ApiRequests ==
    {[kind |-> "run_code", problem_id |-> p, language |-> prog.language,
      code |-> prog.code, test_input |-> t] :
        p \in ProblemIds \cup {MissingProblem}, prog \in ApiPrograms,
        t \in {None, Some(<<>>), Some(<<"a">>)}}
    \cup
    {[kind |-> "submit_code", problem_id |-> p, language |-> prog.language,
      code |-> prog.code, test_input |-> None] :
        p \in ProblemIds \cup {MissingProblem}, prog \in ApiPrograms}

\* A lookup that finds the stored problem under every id.
FindProblemAny(problem, problem_id) == Some(problem)

\* db.problems.find_one({"id": request.problem_id})
FindProblem(problem, problem_id) ==
    IF problem.id = problem_id THEN Some(problem) ELSE None

\* The input run_code hands to execute_code: request.test_input when it is
\* truthy, else the first example's input, else "".
RunInput(request, problem) ==
    IF request.test_input # None /\ request.test_input[1] # <<>>
    THEN request.test_input[1]
    ELSE IF problem.examples # <<>>
         THEN problem.examples[1].input
         ELSE <<>>

\* A selection that prefers the first example to the stored test cases.
SelectTestCasesExampleFirst(problem) ==
    IF problem.examples # <<>>
    THEN <<[input |-> problem.examples[1].input,
            expected_output |-> problem.examples[1].output]>>
    ELSE problem.test_cases

\* The list submit_code hands to test_solution.
SelectTestCases(problem) ==
    IF problem.test_cases # <<>>
    THEN problem.test_cases
    ELSE IF problem.examples # <<>>
         THEN <<[input |-> problem.examples[1].input,
                 expected_output |-> problem.examples[1].output]>>
         ELSE <<>>

\* test_solution as one call: the loop from case i on, with the counters so
\* far; envs[i] is what the child of case i does.  Yields the result, the host
\* after the call and the number of execute_code invocations.
RECURSIVE TestSolutionFrom(_, _, _, _, _, _, _, _)
TestSolutionFrom(lang, src, cases, envs, fs, i, passed, runtime) ==
    IF i > Len(cases)
    THEN [res |-> AllPassed(passed, Len(cases), runtime), fs |-> fs,
          executions |-> i - 1]
    ELSE LET run == ExecuteCode(lang, src, cases[i].input, envs[i], fs)
             g == GradeCase(run.res, cases[i], passed, Len(cases), runtime)
         IN  IF g.stop
             THEN [res |-> g.ret, fs |-> run.fs, executions |-> i]
             ELSE TestSolutionFrom(lang, src, cases, envs, run.fs, i + 1,
                                   g.passed, g.runtime)

TestSolution(lang, src, cases, envs, fs) ==
    TestSolutionFrom(lang, src, cases, envs, fs, 1, 0, 0)

\* A Submission that leaves the counts of the result out.
NewSubmissionWithoutCounts(id, request, result) ==
    [id |-> id, problem_id |-> request.problem_id, language |-> request.language,
     code |-> request.code, status |-> result.status, runtime |-> result.runtime,
     memory |-> result.memory, passed_test_cases |-> 0, total_test_cases |-> 0,
     error_message |-> result.error_message]

\* Submission(user_id=..., problem_id=..., ..., error_message=result.error_message)
NewSubmission(id, request, result) ==
    [id |-> id, problem_id |-> request.problem_id, language |-> request.language,
     code |-> request.code, status |-> result.status, runtime |-> result.runtime,
     memory |-> result.memory, passed_test_cases |-> result.passed_tests,
     total_test_cases |-> result.total_tests,
     error_message |-> result.error_message]

\* The collections as one value.
Database == [submissions |-> db_submissions, problem |-> db_problem, user |-> db_user]

\* A run_code that stores what it ran.
RunCodeStores(db, request, result) ==
    [db EXCEPT !.submissions = Append(@, NewSubmission(Len(@) + 1, request, result))]

\* What run_code writes to the collections: nothing.
RunCodeEffect(db, request, result) == db

\* What submit_code writes: the submission, the problem's counters, and the
\* user's counters when find_one returns no other Accepted submission.
SubmitCodeEffect(db, request, result) ==
    LET submission == NewSubmission(Len(db.submissions) + 1, request, result)
        inserted == Append(db.submissions, submission)
        accepted == {k \in DOMAIN inserted :
                        /\ inserted[k].problem_id = request.problem_id
                        /\ inserted[k].status = ACCEPTED}
        existing_accepted == inserted[CHOOSE k \in accepted : \A j \in accepted : k <= j]
        is_accepted == result.status = ACCEPTED
        \* if not existing_accepted or existing_accepted["id"] == submission.id
        first == is_accepted /\ (accepted = {} \/ existing_accepted.id = submission.id)
    IN  [submissions |-> inserted,
         problem |-> [db.problem EXCEPT
                        !.total_submissions = @ + 1,
                        !.accepted_submissions = IF is_accepted THEN @ + 1 ELSE @],
         user |-> [db.user EXCEPT
                        !.total_solved = IF first THEN @ + 1 ELSE @,
                        !.easy_solved = IF first THEN @ + 1 ELSE @]]

\* One entry of the log of calls.
ApiRecord(request, response, result, graded, stdin, executions, before, after) ==
    [request |-> request, response |-> response, result |-> result,
     graded |-> graded, stdin |-> stdin, executions |-> executions,
     before |-> before, after |-> after]

\* POST /code/run, from the request to the response.
RunCode ==
    /\ Len(api_log) < MaxApiCalls
    /\ \E request \in ApiRequests :
          /\ request.kind = "run_code"
          /\ LET problem == FindProblem(db_problem, request.problem_id)
             IN  IF problem = None
                 THEN /\ api_log' = Append(api_log,
                                           ApiRecord(request, NotFound, NoResult, None,
                                                     None, 0, Database, Database))
                      /\ UNCHANGED <<db_submissions, db_problem, db_user, files,
                                     created, spawned, orphans>>
                 ELSE \E env \in ApiEnvs(request.language) :
                        LET stdin == RunInput(request, problem[1])
                            run == ExecuteCode(request.language, request.code, stdin,
                                               env, FileSystem)
                            after == RunCodeEffect(Database, request, run.res)
                        IN  /\ api_log' = Append(api_log,
                                                 ApiRecord(request, run.res, run.res, None,
                                                           Some(stdin), 1, Database, after))
                            /\ db_submissions' = after.submissions
                            /\ db_problem' = after.problem
                            /\ db_user' = after.user
                            /\ files' = run.fs.files
                            /\ created' = run.fs.created
                            /\ spawned' = run.fs.spawned
                            /\ orphans' = run.fs.orphans
    /\ UNCHANGED <<language, code, test_cases, pc, idx, passed_tests, total_tests,
                   total_runtime, ret, calls, requests, loop>>
    /\ UNCHANGED <<cmpVars, conVars, regVars>>

\* POST /code/submit, from the request to the response.
SubmitCode ==
    /\ Len(api_log) < MaxApiCalls
    /\ \E request \in ApiRequests :
          /\ request.kind = "submit_code"
          /\ LET problem == FindProblem(db_problem, request.problem_id)
             IN  IF problem = None
                 THEN /\ api_log' = Append(api_log,
                                           ApiRecord(request, NotFound, NoResult, None,
                                                     None, 0, Database, Database))
                      /\ UNCHANGED <<db_submissions, db_problem, db_user, files,
                                     created, spawned, orphans>>
                 ELSE \E envs \in [1..MaxCases -> ApiEnvs(request.language)] :
                        LET cases == SelectTestCases(problem[1])
                            graded == TestSolution(request.language, request.code, cases,
                                                   envs, FileSystem)
                            after == SubmitCodeEffect(Database, request, graded.res)
                        IN  /\ api_log' = Append(api_log,
                                                 ApiRecord(request,
                                                           after.submissions[Len(after.submissions)],
                                                           graded.res, Some(cases), None,
                                                           graded.executions, Database, after))
                            /\ db_submissions' = after.submissions
                            /\ db_problem' = after.problem
                            /\ db_user' = after.user
                            /\ files' = graded.fs.files
                            /\ created' = graded.fs.created
                            /\ spawned' = graded.fs.spawned
                            /\ orphans' = graded.fs.orphans
    /\ UNCHANGED <<language, code, test_cases, pc, idx, passed_tests, total_tests,
                   total_runtime, ret, calls, requests, loop>>
    /\ UNCHANGED <<cmpVars, conVars, regVars>>

InitApi ==
    /\ api_log = <<>>
    /\ db_submissions = <<>>
    /\ db_problem \in ProblemDocs
    /\ db_user = [total_solved |-> 0, easy_solved |-> 0]
    /\ requests = <<>>
    /\ loop = 0
    /\ ExecIdle
    /\ CmpIdle
    /\ ConIdle
    /\ RegIdle

NextApi == RunCode \/ SubmitCode

SpecApi == InitApi /\ [][NextApi]_vars

----------------------------------------------------------------------------
\* The comparison of test_solution on its own, over every pair of short texts.

Alphabet == {SP, NL, "5", "6"}

Texts == SeqsUpTo(Alphabet, MaxLen)

CompareTexts ==
    /\ cmp_result = "unset"
    /\ cmp_result' = Compare(cmp_expected, cmp_actual)
    /\ UNCHANGED <<cmp_expected, cmp_actual>>
    /\ UNCHANGED nonCmpVars

InitCompare ==
    /\ cmp_expected \in Texts
    /\ cmp_actual \in Texts
    /\ cmp_result = "unset"
    /\ ExecIdle
    /\ SrvFresh
    /\ ConIdle
    /\ ApiIdle
    /\ RegIdle

NextCompare == CompareTexts

SpecCompare == InitCompare /\ [][NextCompare]_vars

----------------------------------------------------------------------------
\* Vocabulary of the properties.  Trimming is stated here by what it means, not
\* by how strip() computes it: c is the trim of s when s is c between two runs
\* of whitespace and c neither starts nor ends with whitespace.

AllWhitespace(s) == \A i \in DOMAIN s : s[i] \in Whitespace

IsTrimOf(c, s) ==
    \E a, b \in 0..Len(s) :
        /\ a + b <= Len(s)
        /\ AllWhitespace(SubSeq(s, 1, a))
        /\ AllWhitespace(SubSeq(s, Len(s) - b + 1, Len(s)))
        /\ c = SubSeq(s, a + 1, Len(s) - b)
        /\ c # <<>> => (c[1] \notin Whitespace /\ c[Len(c)] \notin Whitespace)

Trimmed(s) ==
    CHOOSE c \in {SubSeq(s, i, j) : i \in 1..(Len(s) + 1), j \in 0..Len(s)} : IsTrimOf(c, s)

TrimEquivalent(s, t) == Trimmed(s) = Trimmed(t)

Returned == pc = "returned"

\* The k-th run reported success and its output matches the k-th expected output.
CasePassed(k) ==
    /\ calls[k].res.status = ACCEPTED
    /\ TrimEquivalent(test_cases[k].expected_output, calls[k].res.output)

RECURSIVE SumElapsed(_)
SumElapsed(k) == IF k = 0 THEN 0 ELSE SumElapsed(k - 1) + calls[k].res.runtime[1][1]

----------------------------------------------------------------------------
\* C1: whatever verdict test_solution returns, the returned total_tests is the
\* number of test cases provided and the returned passed_tests is at most it.
C1_TotalIsNumberOfCases ==
    Returned =>
        /\ ret.total_tests = Len(test_cases)
        /\ ret.passed_tests <= ret.total_tests

\* C2: when the verdict is not Accepted, the returned passed_tests is the number
\* of cases strictly before the first case that was not a success-and-match.
C2_PassedIsCasesBeforeFirstFailure ==
    (Returned /\ ret.status # ACCEPTED) =>
        \E k \in DOMAIN calls :
            /\ ~CasePassed(k)
            /\ \A j \in 1..(k - 1) : CasePassed(j)
            /\ ret.passed_tests = k - 1

\* The runs happen in the order of the list, one case per run, and no run
\* follows a run that did not pass.
RunsInOrderUntilFirstFailure ==
    /\ \A k \in DOMAIN calls : calls[k].case = k /\ calls[k].input = test_cases[k].input
    /\ \A k \in DOMAIN calls : k < Len(calls) => CasePassed(k)
    /\ Returned => (Len(calls) = Len(test_cases) \/ ~CasePassed(Len(calls)))

\* C3: the cases run strictly in order, nothing runs after the first case that
\* does not pass, and the number of execute_code invocations is passed_tests + 1
\* on failure and total_tests on success.
C3_StopAtFirstFailure ==
    /\ RunsInOrderUntilFirstFailure
    /\ Returned =>
          Len(calls) = IF ret.status = ACCEPTED THEN ret.total_tests
                       ELSE ret.passed_tests + 1

\* C4: the verdict is Accepted exactly when every test case was run, reported
\* success and matched; then passed_tests = total_tests and the runtime is the
\* sum of the runs' elapsed times divided by the number of cases.
C4_AcceptedIffAllPass ==
    Returned =>
        /\ ret.status = ACCEPTED <=>
              /\ Len(calls) = Len(test_cases)
              /\ \A k \in DOMAIN calls : CasePassed(k)
        /\ ret.status = ACCEPTED =>
              /\ ret.passed_tests = Len(test_cases)
              /\ ret.total_tests = Len(test_cases)
              /\ Len(test_cases) > 0 =>
                    /\ ret.runtime # None
                    /\ ret.runtime[1][1] * Len(test_cases)
                          = SumElapsed(Len(calls)) * ret.runtime[1][2]

\* C4's case: two runs of different length pass and their mean is reported.
C4_Witness ==
    /\ Returned
    /\ ret.status = ACCEPTED
    /\ language = PYTHON
    /\ Len(calls) = 2
    /\ ret.runtime = Some(<<3, 2>>)

\* C5: the comparison is a Match exactly when the two texts are equal once
\* leading and trailing whitespace is removed; interior characters, an interior
\* space included, always count.
C5_MatchIffTrimEqual ==
    cmp_result # "unset" =>
        (cmp_result = "Match" <=> TrimEquivalent(cmp_expected, cmp_actual))

\* C5's case: " 5\n" against "5" has been compared and is a Match.
C5_Witness ==
    /\ cmp_expected = <<SP, "5", NL>>
    /\ cmp_actual = <<"5">>
    /\ cmp_result = "Match"

\* The other half of the trimming law: "5 6" against "56" is a Mismatch.
C5_InteriorSpaceCounts ==
    (cmp_expected = <<"5", SP, "6">> /\ cmp_actual = <<"5", "6">> /\ cmp_result # "unset")
        => cmp_result = "Mismatch"

\* C6: a case that runs successfully with an output that does not match ends the
\* grading with Wrong Answer, which carries the expected and the actual output
\* of that case, passed_tests = the number of earlier cases and total_tests =
\* the number of cases provided; and Wrong Answer is returned for no other reason.
C6_WrongAnswerCarriesBoth ==
    /\ \A k \in DOMAIN calls :
          (calls[k].res.status = ACCEPTED /\ ~CasePassed(k)) =>
              /\ Returned
              /\ k = Len(calls)
              /\ ret.status = WRONG_ANSWER
              /\ ret.output = <<"Expected: ">> \o Trimmed(test_cases[k].expected_output)
                                 \o <<NL, "Actual: ">> \o Trimmed(calls[k].res.output)
              /\ ret.passed_tests = k - 1
              /\ ret.total_tests = Len(test_cases)
    /\ (Returned /\ ret.status = WRONG_ANSWER) =>
          (calls[Len(calls)].res.status = ACCEPTED /\ ~CasePassed(Len(calls)))

\* C6's case: the second case ran to a zero exit with the wrong output.
C6_Witness ==
    /\ Returned
    /\ ret.status = WRONG_ANSWER
    /\ Len(calls) = 2
    /\ calls[2].env.kind = "exit"
    /\ ret.passed_tests = 1
    /\ Trimmed(test_cases[2].expected_output) # Trimmed(calls[2].res.output)

\* A run that outlived the timeout ends the grading with Time Limit Exceeded.
TimeoutStopsWithTle ==
    \A k \in DOMAIN calls :
        calls[k].env.kind = "timeout" =>
            (Returned /\ k = Len(calls) /\ ret.status = TIME_LIMIT_EXCEEDED)

\* C7: a run that exceeds the time limit gives the verdict Time Limit Exceeded,
\* ends the grading at that case, and passed_tests is the number of cases passed
\* before it.
C7_TimeoutVerdict ==
    \A k \in DOMAIN calls :
        calls[k].env.kind = "timeout" =>
            /\ Returned
            /\ k = Len(calls)
            /\ ret.status = TIME_LIMIT_EXCEEDED
            /\ ret.passed_tests = k - 1

\* A run that exits non-zero ends the grading with Runtime Error and the
\* (trimmed) stderr of that run as the message.
NonZeroExitStopsWithStderr ==
    \A k \in DOMAIN calls :
        (calls[k].env.kind = "exit" /\ calls[k].env.rc # 0) =>
            /\ Returned
            /\ k = Len(calls)
            /\ ret.status = RUNTIME_ERROR
            /\ ret.error_message = Some(Trimmed(calls[k].stderr))

\* C8: a run that exits with a non-zero status gives the verdict Runtime Error
\* with the captured stderr of that run as its message, ends the grading, and
\* passed_tests is the number of cases passed before it.
C8_NonZeroExitVerdict ==
    \A k \in DOMAIN calls :
        (calls[k].env.kind = "exit" /\ calls[k].env.rc # 0) =>
            /\ Returned
            /\ k = Len(calls)
            /\ ret.status = RUNTIME_ERROR
            /\ ret.error_message = Some(Trimmed(calls[k].stderr))
            /\ ret.passed_tests = k - 1

\* A run in a language outside the enumeration creates no scratch file and
\* spawns no child.
UnsupportedAllocatesNothing ==
    \A k \in DOMAIN calls :
        calls[k].language \notin LanguageEnum =>
            (calls[k].created = 0 /\ calls[k].spawned = 0 /\ calls[k].left = {})

\* Some run in a supported language can return exactly this result.
SupportedRunCanReturn(res) ==
    \E lang \in LanguageEnum, src \in Codes, input \in Inputs, env \in ChildEnvs :
        ExecuteCode(lang, src, input, env,
                    [files |-> {}, created |-> 0, spawned |-> 0, orphans |-> 0]).res.status = res.status

\* C9: a run in a language outside the supported set fails with an error kind of
\* its own (one that no run in a supported language reports) before any scratch
\* file or child process is allocated.
C9_UnsupportedLanguageIsDistinct ==
    \A k \in DOMAIN calls :
        calls[k].language \notin LanguageEnum =>
            /\ ~SupportedRunCanReturn(calls[k].res)
            /\ calls[k].created = 0
            /\ calls[k].spawned = 0

\* C10: once execute_code has returned, no scratch file it created exists,
\* whichever way the run ended.
C10_NoScratchFileLeft ==
    /\ files = {}
    /\ \A k \in DOMAIN calls : calls[k].left = {}

----------------------------------------------------------------------------
\* A run that outlived the timeout is reported as Time Limit Exceeded.
TimeoutIsReported ==
    \A k \in DOMAIN calls :
        calls[k].env.kind = "timeout" => calls[k].res.status = TIME_LIMIT_EXCEEDED

\* C11: when a run's deadline elapses the child and all its descendants are
\* killed and the outcome is Time Limit Exceeded; once execute_code has returned
\* that outcome, no process of the run is still running.
C11_TimeoutKillsDescendants ==
    /\ \A k \in DOMAIN calls :
          calls[k].env.kind = "timeout" =>
              (calls[k].res.status = TIME_LIMIT_EXCEEDED /\ calls[k].orphans = 0)
    /\ \A k \in DOMAIN calls :
          calls[k].res.status = TIME_LIMIT_EXCEEDED => calls[k].orphans = 0

\* C12: whatever the language, the code and the test cases, and whatever fails
\* inside a run, execute_code and test_solution return a result whose status is
\* one of the verdicts; neither raises, and test_solution always goes on to return.
C12_AlwaysStructuredResult ==
    /\ pc # "raised"
    /\ \A k \in DOMAIN calls :
          ~calls[k].raised /\ calls[k].res.status \in SubmissionStatusEnum
    /\ Returned => ret.status \in SubmissionStatusEnum
    /\ Returned \/ ENABLED Next

\* C12's case: the interpreter could not be started in the second run, and
\* test_solution returned a verdict all the same.
C12_Witness ==
    /\ Returned
    /\ Len(calls) = 2
    /\ calls[2].env.kind = "spawn_fails"
    /\ ret.status = RUNTIME_ERROR

\* C13: a failure of the sandbox itself (the scratch file cannot be created, the
\* interpreter is missing or cannot be spawned) is never reported with the
\* Runtime Error verdict of a defect in the user's code.
C13_InternalFailureIsNotRuntimeError ==
    \A k \in DOMAIN calls :
        calls[k].env.kind \in {"create_fails", "spawn_fails"} =>
            calls[k].res.status # RUNTIME_ERROR

\* "c2" stands for a text that no compiler accepts.
FailsToCompile(lang, src) == lang \in {JAVA, CPP} /\ src = "c2"

\* C18: for Java and C++, source that does not compile gives the verdict
\* Compile Error for the whole submission, and no test case is run.
C18_CompileErrorStops ==
    (Returned /\ FailsToCompile(language, code) /\ test_cases # <<>>) =>
        /\ ret.status = COMPILE_ERROR
        /\ \A k \in DOMAIN calls : calls[k].env.kind # "exit"
        /\ Len(calls) <= 1

\* C19: a run whose memory exceeds the ceiling ends the grading at that case
\* with the verdict Memory Limit Exceeded (which is not Time Limit Exceeded).
C19_MemoryLimitVerdict ==
    \A k \in DOMAIN calls :
        calls[k].env.peak > memory_limit =>
            /\ Returned
            /\ k = Len(calls)
            /\ ret.status = MEMORY_LIMIT_EXCEEDED

\* Two runs in which the child did the same: same way of ending, same exit
\* status, same text written (the script's path apart), same descendants and
\* memory; the host let both runs start.  Only the elapsed time may differ.
SameChild(e1, e2) ==
    /\ e1.kind = e2.kind
    /\ e1.kind \in {"exit", "timeout", "none"}
    /\ e1.rc = e2.rc
    /\ e1.stdout = e2.stdout
    /\ e1.stderr = e2.stderr
    /\ e1.descendants = e2.descendants
    /\ e1.peak = e2.peak

SameArguments(j, k) ==
    /\ calls[j].language = calls[k].language
    /\ calls[j].code = calls[k].code
    /\ calls[j].input = calls[k].input

\* Two such runs get the same status and the same output.
RepeatedRunSameStatusAndOutput ==
    \A j, k \in DOMAIN calls :
        (SameArguments(j, k) /\ SameChild(calls[j].env, calls[k].env)) =>
            /\ calls[j].res.status = calls[k].res.status
            /\ calls[j].res.output = calls[k].res.output

\* C20: two runs of the same (language, code, stdin) under the same limits get
\* the same classification and, the program being deterministic, the same
\* output; nothing but the elapsed time differs between the two results.
C20_RepeatedRunSameResult ==
    \A j, k \in DOMAIN calls :
        (SameArguments(j, k) /\ SameChild(calls[j].env, calls[k].env)) =>
            /\ calls[j].res.status = calls[k].res.status
            /\ calls[j].res.output = calls[k].res.output
            /\ calls[j].res.memory = calls[k].res.memory
            /\ calls[j].res.passed_tests = calls[k].res.passed_tests
            /\ calls[j].res.total_tests = calls[k].res.total_tests
            /\ calls[j].res.error_message = calls[k].res.error_message

----------------------------------------------------------------------------
\* Properties of the server.

\* C14: over any sequence and interleaving of submit_code calls of one user for
\* one problem, the user's total_solved and difficulty counter are incremented
\* at most once.
C14_StatsAtMostOncePerPair ==
    /\ db_user.total_solved <= 1
    /\ db_user.easy_solved <= 1

\* The problem's counters count the stored submissions (each $inc is atomic).
ProblemCountersAreExact ==
    (\A h \in Requests : At(h, "new") \/ At(h, "done")) =>
        /\ db_problem.total_submissions = Len(db_submissions)
        /\ db_problem.accepted_submissions =
              Cardinality({k \in DOMAIN db_submissions :
                              db_submissions[k].status = ACCEPTED})

\* Positions at which a handler waits for the event loop to run it.
WaitsForLoop(h) ==
    \/ At(h, "find_problem")
    \/ At(h, "inserted")
    \/ At(h, "inc_accepted")
    \/ At(h, "find_existing")
    \/ At(h, "inc_user")

\* C16: while the child process of one submission runs, the dispatcher still
\* serves the other requests: each request that is ready to go on can go on.
C16_DispatcherNotStalled ==
    \A h \in Requests :
        At(h, "grading") =>
            \A g \in Requests \ {h} : WaitsForLoop(g) => ENABLED HandlerStep(g)

\* The cap of the wait queue.
QueueCap == 1

\* Requests received and not yet taken up by a worker.
Waiting == {h \in Requests : At(h, "find_problem")}

\* C17: when every worker is busy and the wait queue is at its cap, a request
\* that arrives is rejected with Overloaded at once: never more than QueueCap
\* requests wait while a submission is being graded.
C17_QueueIsCapped ==
    (\E h \in Requests : At(h, "grading")) => Cardinality(Waiting) <= QueueCap

----------------------------------------------------------------------------
\* Properties of concurrent callers.

\* The caller holds a scratch file.
HoldsScratch(c) == runs[c].pc \in {"created", "written", "running", "exited"}

\* The results the call can give when no other call runs: one per name the
\* scratch file can get.
IsolatedResults(c) ==
    {ResultOf(runs[c].code, runs[c].input, n) : n \in ScratchNames}

\* C15: concurrent calls of the runner share no mutable state: the scratch
\* files of two calls in progress are distinct, each child runs the code of its
\* own call, and each call's result is one it gives when it runs alone.
C15_ConcurrentCallsIndependent ==
    /\ \A c, d \in Callers :
          (c # d /\ HoldsScratch(c) /\ HoldsScratch(d)) => runs[c].name # runs[d].name
    /\ \A c \in Callers :
          runs[c].pc \in {"running", "exited", "done"} => runs[c].program = runs[c].code
    /\ \A c \in Callers :
          runs[c].pc \in {"exited", "done"} => runs[c].res \in IsolatedResults(c)

\* Every request has been answered or was never sent.
AllCompleted == \A h \in Requests : At(h, "new") \/ At(h, "done")

\* Problems for which the user has at least one Accepted submission record.
SolvedProblems ==
    {p \in ProblemIds :
        \E k \in DOMAIN db_submissions :
            /\ db_submissions[k].status = ACCEPTED
            /\ requests[db_submissions[k].id].problem_id = p}

\* The first Accepted submission of the user for a problem is never missed.
FirstAcceptedIsCounted ==
    AllCompleted => db_user.total_solved >= Cardinality(SolvedProblems)

\* C26: once all submit_code calls have completed, the user's total_solved is
\* the number of distinct problems for which the user has at least one
\* Accepted submission record.
C26_TotalSolvedIsDistinctSolved ==
    AllCompleted => db_user.total_solved = Cardinality(SolvedProblems)

\* C27: in every state the problem's accepted_submissions is at most its
\* total_submissions; once all calls have completed, total_submissions is the
\* number of submission records of the problem and accepted_submissions the
\* number of those with status Accepted.
C27_ProblemCountersConsistent ==
    /\ db_problem.accepted_submissions <= db_problem.total_submissions
    /\ AllCompleted =>
          /\ db_problem.total_submissions = Len(db_submissions)
          /\ db_problem.accepted_submissions =
                Cardinality({k \in DOMAIN db_submissions :
                                db_submissions[k].status = ACCEPTED})

\* C27's case: three submissions, two of them Accepted, all answered, while
\* the counters were updated in an interleaved order.
C27_Witness ==
    /\ \A h \in Requests : At(h, "done")
    /\ Len(db_submissions) = 3
    /\ db_problem.accepted_submissions = 2
    /\ db_submissions[1].id # 1

----------------------------------------------------------------------------
\* Properties of register.

\* A stored user has the email or the username of the request.
Taken(r) ==
    \E k \in DOMAIN db_users :
        \/ db_users[k].email = registrations[r].email
        \/ db_users[k].username = registrations[r].username

\* The user a request created, if any.
CreatedBy(r) == {k \in DOMAIN db_users : db_users[k].id = r}

\* No two stored users share an email, no two share a username.
UsersAreUnique ==
    \A j, k \in DOMAIN db_users :
        j # k => /\ db_users[j].email # db_users[k].email
                 /\ db_users[j].username # db_users[k].username

\* A request that is looked up while a stored user has its email or its
\* username is answered 400, and the lookup stores nothing.
TakenIsRejected ==
    \A r \in Registrations :
        (registrations[r].pc = "find_existing" /\ registrations'[r].pc # "find_existing"
         /\ Taken(r)) =>
            /\ registrations'[r].response = AlreadyExists
            /\ db_users' = db_users

\* A request answered 400 has created no user.
RejectedCreatesNothing ==
    \A r \in Registrations :
        registrations[r].response = AlreadyExists => CreatedBy(r) = {}

\* C22: a registration whose email or username an existing user has is answered
\* 400 and creates no user; after any interleaving of register calls no two
\* stored users share an email and no two share a username.
C22_RegisterKeepsUsersUnique ==
    /\ [](UsersAreUnique /\ RejectedCreatesNothing)
    /\ [][TakenIsRejected]_vars

\* C22's case: two requests with the same email were both past the lookup
\* before either insert; one was stored, and a later request with that email
\* was answered 400.
C22_Witness ==
    /\ \A r \in Registrations : registrations[r].pc = "done"
    /\ registrations[1].email = registrations[2].email
    /\ registrations[3].email = registrations[1].email
    /\ registrations[1].response = Registered
    /\ registrations[2].response = ServerError
    /\ registrations[3].response = AlreadyExists
    /\ Len(db_users) = 1

----------------------------------------------------------------------------
\* Properties of run_code and submit_code.

ApiCalls == DOMAIN api_log

IsRun(k) == api_log[k].request.kind = "run_code"

IsSubmit(k) == api_log[k].request.kind = "submit_code"

\* The request names the stored problem.
ProblemExists(k) == api_log[k].request.problem_id \in ProblemIds

\* The submission record the call inserted (the last one after the call).
Inserted(k) == api_log[k].after.submissions[Len(api_log[k].after.submissions)]

HasAccepted(submissions) ==
    \E j \in DOMAIN submissions : submissions[j].status = ACCEPTED

\* C21: run_code and submit_code on a problem id that does not exist answer
\* 404 before any code is executed and change nothing: no submission record,
\* no problem or user statistic.
C21_MissingProblemChangesNothing ==
    \A k \in ApiCalls :
        ~ProblemExists(k) =>
            /\ api_log[k].executions = 0
            /\ api_log[k].graded = None
            /\ api_log[k].stdin = None
            /\ api_log[k].after = api_log[k].before
            /\ api_log[k].response = NotFound

\* C21's case: after an Accepted submission, a submission names a missing
\* problem.
C21_Witness ==
    /\ Len(api_log) = 2
    /\ IsSubmit(1) /\ ProblemExists(1) /\ api_log[1].result.status = ACCEPTED
    /\ IsSubmit(2) /\ ~ProblemExists(2)
    /\ Len(db_submissions) = 1

\* C23: run_code returns the status and output of its single run as they are,
\* without grading them, and writes nothing: no submission record, no change
\* of the problem's or the user's statistics.
C23_RunCodeIsRawAndStateless ==
    \A k \in ApiCalls :
        (IsRun(k) /\ ProblemExists(k)) =>
            /\ api_log[k].executions = 1
            /\ api_log[k].graded = None
            /\ api_log[k].response.status \in {ACCEPTED, RUNTIME_ERROR, TIME_LIMIT_EXCEEDED}
            /\ api_log[k].response.status = api_log[k].result.status
            /\ api_log[k].response.output = api_log[k].result.output
            /\ api_log[k].response.passed_tests = 0
            /\ api_log[k].response.total_tests = 0
            /\ api_log[k].after = api_log[k].before

\* C23's case: after a submission, a run whose output "5" is not what the
\* first test case expects comes back Accepted with that output.
C23_Witness ==
    /\ Len(api_log) = 2
    /\ IsSubmit(1) /\ ProblemExists(1) /\ api_log[1].result.status = WRONG_ANSWER
    /\ IsRun(2) /\ ProblemExists(2)
    /\ api_log[2].response.status = ACCEPTED
    /\ api_log[2].response.output = <<"5">>
    /\ db_problem.test_cases # <<>>
    /\ db_problem.test_cases[1].expected_output # <<"5">>
    /\ db_problem.total_submissions = 1

\* C24: a submit_code call on an existing problem inserts exactly one
\* submission record, whose status, passed_test_cases and total_test_cases are
\* those of test_solution's result, and adds exactly one to total_submissions.
C24_SubmitRecordsResult ==
    \A k \in ApiCalls :
        (IsSubmit(k) /\ ProblemExists(k)) =>
            LET before == api_log[k].before
                after == api_log[k].after
            IN  /\ Len(after.submissions) = Len(before.submissions) + 1
                /\ SubSeq(after.submissions, 1, Len(before.submissions)) = before.submissions
                /\ Inserted(k).status = api_log[k].result.status
                /\ Inserted(k).passed_test_cases = api_log[k].result.passed_tests
                /\ Inserted(k).total_test_cases = api_log[k].result.total_tests
                /\ after.problem.total_submissions = before.problem.total_submissions + 1

\* C24's case: the second submission is a Wrong Answer at the second of two
\* cases; its record says 1 of 2.
C24_Witness ==
    /\ Len(api_log) = 2
    /\ IsSubmit(1) /\ ProblemExists(1)
    /\ IsSubmit(2) /\ ProblemExists(2)
    /\ api_log[2].result.status = WRONG_ANSWER
    /\ api_log[2].result.passed_tests = 1
    /\ db_submissions[2].passed_test_cases = 1
    /\ db_submissions[2].total_test_cases = 2
    /\ db_problem.total_submissions = 2

\* C28: test_solution on the empty list runs nothing and returns Accepted with
\* passed_tests = 0, total_tests = 0 and runtime 0; so a submission to a
\* problem with neither test cases nor examples is recorded as Accepted and
\* the problem counts as solved, whatever the code.
C28_EmptyListIsAccepted ==
    \A k \in ApiCalls :
        (IsSubmit(k) /\ ProblemExists(k)) =>
            LET before == api_log[k].before
                after == api_log[k].after
                result == api_log[k].result
            IN  /\ api_log[k].graded = Some(<<>>) =>
                      /\ api_log[k].executions = 0
                      /\ result.status = ACCEPTED
                      /\ result.passed_tests = 0
                      /\ result.total_tests = 0
                      /\ result.runtime = Some(Rat(0, 1))
                /\ (before.problem.test_cases = <<>> /\ before.problem.examples = <<>>) =>
                      /\ api_log[k].graded = Some(<<>>)
                      /\ Inserted(k).status = ACCEPTED
                      /\ after.user.total_solved >= 1
                      /\ ~HasAccepted(before.submissions) =>
                            after.user.total_solved = before.user.total_solved + 1

\* C28's case: the problem has neither test cases nor examples; two different
\* programs are submitted, both are Accepted, the problem is solved once.
C28_Witness ==
    /\ Len(api_log) = 2
    /\ db_problem.test_cases = <<>> /\ db_problem.examples = <<>>
    /\ IsSubmit(1) /\ ProblemExists(1)
    /\ IsSubmit(2) /\ ProblemExists(2)
    /\ api_log[1].request.code # api_log[2].request.code
    /\ db_submissions[1].status = ACCEPTED
    /\ db_submissions[2].status = ACCEPTED
    /\ db_user.total_solved = 1

\* The list the claim says a submission to this problem is graded against.
CasesToGrade(problem) ==
    CASE problem.test_cases # <<>> -> problem.test_cases
      [] problem.test_cases = <<>> /\ problem.examples # <<>> ->
            <<[input |-> problem.examples[1].input,
               expected_output |-> problem.examples[1].output]>>
      [] OTHER -> <<>>

\* C29: submit_code grades against the stored test cases in their stored
\* order; with no test cases, against one case made of the first example's
\* input and output; with no examples either, against the empty list.
C29_GradesStoredCasesInOrder ==
    \A k \in ApiCalls :
        (IsSubmit(k) /\ ProblemExists(k)) =>
            LET cases == CasesToGrade(api_log[k].before.problem)
                result == api_log[k].result
            IN  /\ api_log[k].graded = Some(cases)
                /\ api_log[k].executions <= Len(cases)
                /\ result.status \in {ACCEPTED, WRONG_ANSWER} =>
                      result.total_tests = Len(cases)
                /\ result.status = WRONG_ANSWER =>
                      LET expected == Strip(cases[api_log[k].executions].expected_output)
                      IN  SubSeq(result.output, 1, Len(expected) + 2) =
                              <<"Expected: ">> \o expected \o <<NL>>

\* C29's case: no test cases but two examples; the submission is graded
\* against the first example alone and Accepted.
C29_Witness ==
    /\ Len(api_log) >= 1
    /\ IsSubmit(1) /\ ProblemExists(1)
    /\ api_log[1].before.problem.test_cases = <<>>
    /\ Len(api_log[1].before.problem.examples) = 2
    /\ Len(api_log[1].graded[1]) = 1
    /\ api_log[1].result.status = ACCEPTED
    /\ api_log[1].result.total_tests = 1

\* C30: run_code feeds the program the request's test_input whenever one is
\* given, the empty string included; only without a test_input does it feed the
\* first example's input, or nothing when there are no examples.
C30_RunFeedsGivenInput ==
    \A k \in ApiCalls :
        (IsRun(k) /\ ProblemExists(k)) =>
            LET request == api_log[k].request
                examples == api_log[k].before.problem.examples
            IN  api_log[k].stdin =
                    Some(IF request.test_input # None THEN request.test_input[1]
                         ELSE IF examples # <<>> THEN examples[1].input
                         ELSE <<>>)

\* Without the empty string, run_code feeds what the claim says.
RunFeedsNonEmptyInput ==
    \A k \in ApiCalls :
        (IsRun(k) /\ ProblemExists(k) /\ api_log[k].request.test_input # Some(<<>>)) =>
            LET request == api_log[k].request
                examples == api_log[k].before.problem.examples
            IN  api_log[k].stdin =
                    Some(IF request.test_input # None THEN request.test_input[1]
                         ELSE IF examples # <<>> THEN examples[1].input
                         ELSE <<>>)

----------------------------------------------------------------------------
\* Dependence of the result on the code.

\* Two programs in this language, run on one input, can come back with
\* different outputs.
OutputDependsOnCode(lang) ==
    \E src1, src2 \in Codes, test_input \in Inputs, env1, env2 \in EnvsFor(lang) :
        /\ src1 # src2
        /\ ExecuteCode(lang, src1, test_input, env1, FileSystem).res.output
              # ExecuteCode(lang, src2, test_input, env2, FileSystem).res.output

\* The interpreted languages run the code they are given.
InterpretedOutputDependsOnCode ==
    language \in {PYTHON, JAVASCRIPT} => OutputDependsOnCode(language)

\* C25: for every supported language, Java and C++ included, two submissions
\* whose programs print different outputs can get different verdicts: the
\* result of a run is not the same whatever the code.
C25_VerdictDependsOnCode ==
    language \in LanguageEnum => OutputDependsOnCode(language)

====
